---- MODULE Spec2Model ----
(***************************************************************************)
(* A model of the NeuroFinance pipeline: the DataAggregator (collect and   *)
(* deduplicate), the VolatilityPredictor (per-entity windows and the       *)
(* current-signal cache), the ConnectionManager (subscriber registry and   *)
(* broadcast), the background Driver stream_sentiment_updates and the      *)
(* request / WebSocket handlers of backend/app/main.py.                    *)
(*                                                                         *)
(* All coroutines run on one asyncio event loop: a step of the model is    *)
(* the code that runs between two suspension points (awaits) of one        *)
(* coroutine.                                                              *)
(***************************************************************************)
EXTENDS Integers, Sequences, FiniteSets, TLC

\* ---------------------------------------------------------------- bounds
\* The Ledger's capacity, deque(maxlen=100000) in the code, scaled down.
Capacity == 2
\* The most entries the feeds return to one collect call.
MaxRss == 2
\* The largest `limit` a request passes to fetch_latest_articles.
MaxLimit == 2
\* The slice size of the Driver (batch_size = 100 in the code), scaled down.
BatchSize == 2
\* The per-entity window capacity, deque(maxlen=100) in the code, scaled down.
HistoryMaxLen == 2
\* The most items the model counts in one day: a collect call that would count
\* more only happens on a new day.
MaxDaily == 4
\* the longest block of equal observations a drawn window starts with
MaxPrior == 21
\* the longest window drawn for predict
MaxWindow == 52
\* drawn monotone windows take their net sentiments from -NetRange .. NetRange
NetRange == 6

\* ------------------------------------------------------- program constants
ThrottleSecs == 2
RecoverySecs == 5
\* _calculate_momentum: the fewest observations, and the tail it looks at.
MomentumMinLen == 10
MomentumTail == 20
\* predict: the fewest observations, and the tail it looks at.
PredictMinLen == 5
PredictTail == 50
\* the capacity of a window: deque(maxlen=100)
WindowCapacity == 100
\* fetch_latest_articles' default limit is 100, the same number as batch_size:
\* the Driver calls it with the default, so the scaled values stay equal.
DefaultLimit == BatchSize

\* ------------------------------------------------------------ value sets
None == "None"
Symbols == {"AAPL"}
\* Fingerprints of feed entries (md5 of the entry's link) and of demo articles.
RssIds == {1, 2}
DemoIds == 3 .. (2 + Capacity + (IF MaxLimit > DefaultLimit THEN MaxLimit ELSE DefaultLimit))
Ids == RssIds \cup DemoIds
\* What the feeds can deliver: an entry's content is fixed by its link. symbols
\* is what _extract_symbols finds in it (known tickers), entities what the
\* Scorer's _extract_entities finds (tickers, and company names as the list of
\* companies spells them).
RssItems == {[id |-> 1, symbols |-> {"AAPL"}, entities |-> {"AAPL"}],
             [id |-> 2, symbols |-> {}, entities |-> {"Apple"}]}
\* Feed entries without a link: entry.get("link", "") is "" and the fingerprint
\* is the md5 of "", whatever the title and the summary are.
NoLinkId == 0
LinklessItems == {[id |-> NoLinkId, symbols |-> {"AAPL"}, entities |-> {"AAPL"}],
                  [id |-> NoLinkId, symbols |-> {}, entities |-> {"Apple"}]}
\* The configured feeds (news_feeds), in list order.
Feeds == <<"bloomberg", "cnbc">>
\* The Scorer's possible distributions for one text, in tenths.
Scores == {[positive |-> 8, negative |-> 1], [positive |-> 1, negative |-> 8]}
\* WebSocket objects; each is handed to websocket_sentiment once.
WS == {"w1", "w2", "w3"}

Min(a, b) == IF a < b THEN a ELSE b

\* str.upper() on the symbols a request can carry.
Upper(s) == IF s = "aapl" THEN "AAPL" ELSE IF s = "Apple" THEN "APPLE" ELSE s

RECURSIVE SeqsUpTo(_, _)
SeqsUpTo(S, n) ==
    IF n = 0 THEN {<<>>}
    ELSE LET shorter == SeqsUpTo(S, n - 1)
         IN  shorter \cup {Append(s, x) : s \in {t \in shorter : Len(t) = n - 1}, x \in S}

Range(s) == {s[k] : k \in 1 .. Len(s)}

\* list.remove(x): removes the first occurrence (the caller checks membership).
RECURSIVE ListRemove(_, _)
ListRemove(s, x) ==
    IF s = <<>> THEN <<>>
    ELSE IF Head(s) = x THEN Tail(s)
    ELSE <<Head(s)>> \o ListRemove(Tail(s), x)

\* deque(maxlen=n).append(x): a full deque drops its oldest (leftmost) entry.
DequeAppend(q, x, maxlen) ==
    IF Len(q) >= maxlen THEN Append(Tail(q), x) ELSE Append(q, x)

\* ------------------------------------------------------------ state
VARIABLES
    \* DataAggregator
    processed_ids,        \* the Ledger: deque of fingerprints, oldest first
    daily_count,          \* the daily counter
    \* VolatilityPredictor
    sentiment_history,    \* entity -> window (a defaultdict: absent until first append)
    current_signals,      \* the current-signal cache
    \* stream_sentiment_updates (the Driver)
    driverPc,             \* where the Driver is suspended
    articles,             \* the list its collect call returned
    sliceAt,              \* the slice loop's index i
    results,              \* the current slice's scored results
    sleepSecs,            \* the delay of the sleep it is in (0: not sleeping)
    \* ConnectionManager and websocket_sentiment
    active_connections,   \* the registry, a list
    wsPc,                 \* per WebSocket: its handler's position
    bIdx,                 \* broadcast: the list iterator's index
    bCur,                 \* broadcast: the connection being sent to (None: no sweep)
    disconnected,         \* broadcast: the failed connections collected so far
    \* history (not program state)
    dedupLog,             \* the per-item decisions of the _deduplicate call just made
    collectLog,           \* the fetch_latest_articles call just made: what each feed
                          \* did and what _fetch_from_rss returned
    response,             \* what the request just served returned
    raisedIn,             \* the stage whose exception the Driver is recovering from
                          \* ("recovered" once it is back from that sleep)
    bcast,                \* the current / last broadcast: who was there, who received
    observed              \* the fingerprints of the items that have added observations
                          \* to the windows and have been in the Ledger ever since

vars == <<processed_ids, sentiment_history, current_signals, driverPc, articles,
          sliceAt, results, sleepSecs, active_connections, wsPc, bIdx, bCur,
          disconnected, dedupLog, raisedIn, bcast, daily_count, collectLog,
          response, observed>>

aggVars == <<processed_ids, daily_count>>
engineVars == <<sentiment_history, current_signals>>
hubVars == <<active_connections, wsPc, bIdx, bCur, disconnected, bcast>>
driverVars == <<driverPc, articles, sliceAt, results, sleepSecs, raisedIn>>

\* ------------------------------------------------------- DataAggregator
\* A _deduplicate that forgets what it kept earlier in the same call.
SeenAddForgets(seen_ids, id) == seen_ids

\* _deduplicate, line 220: seen_ids.add(article.id).
SeenAdd(seen_ids, id) == seen_ids \cup {id}

\* A Ledger without maxlen: nothing is ever evicted.
LedgerAppendUnbounded(ledger, id) == Append(ledger, id)

\* A Ledger that makes room by dropping its newest entry.
LedgerAppendEvictsNewest(ledger, id) ==
    IF Len(ledger) >= Capacity
    THEN Append(SubSeq(ledger, 1, Len(ledger) - 1), id)
    ELSE Append(ledger, id)

\* _deduplicate, line 221: self.processed_ids.append(article.id) on the bounded deque.
LedgerAppend(ledger, id) == DequeAppend(ledger, id, Capacity)

\* The loop of _deduplicate over the articles, in input order. seen_ids is the
\* set built from the Ledger when the call started plus what the call kept;
\* the Ledger itself evicts as it is appended to. log records, per item, whether
\* its fingerprint was in the Ledger at that moment, whether the Ledger was at
\* capacity, and whether the item was kept.
RECURSIVE DedupLoop(_, _, _, _, _)
DedupLoop(rest, seen_ids, ledger, unique, log) ==
    IF rest = <<>>
    THEN [unique |-> unique, processed_ids |-> ledger, log |-> log]
    ELSE LET article == Head(rest)
             event(kept) == [id |-> article.id,
                             inLedger |-> article.id \in Range(ledger),
                             full |-> Len(ledger) >= Capacity,
                             kept |-> kept]
         IN  IF article.id \notin seen_ids
             THEN DedupLoop(Tail(rest), SeenAdd(seen_ids, article.id),
                            LedgerAppend(ledger, article.id),
                            Append(unique, article), Append(log, event(TRUE)))
             ELSE DedupLoop(Tail(rest), seen_ids, ledger, unique,
                            Append(log, event(FALSE)))

\* A collect call that returns the filtered list without deduplicating it.
DeduplicateSkipped(arts, ledger) ==
    [unique |-> arts, processed_ids |-> ledger, log |-> <<>>]

\* A _deduplicate whose seen_ids starts empty instead of from the Ledger.
DeduplicateStartsEmpty(arts, ledger) == DedupLoop(arts, {}, ledger, <<>>, <<>>)

\* _deduplicate: seen_ids = set(self.processed_ids), then the loop.
Deduplicate(arts, ledger) == DedupLoop(arts, Range(ledger), ledger, <<>>, <<>>)

\* The ids of the demo articles of one call: md5 of title, index and the
\* current timestamp, so they are new to the Ledger and distinct in the call.
\* The model takes the lowest-numbered ids that the Ledger does not hold.
RECURSIVE FreshIds(_, _)
FreshIds(count, used) ==
    IF count <= 0 \/ DemoIds \ used = {} THEN <<>>
    ELSE LET id == CHOOSE x \in DemoIds \ used : \A y \in DemoIds \ used : x <= y
         IN  <<id>> \o FreshIds(count - 1, used \cup {id})

\* A backfill that generates nothing.
NoDemoArticles(count, symbol, chosen, ledger) == <<>>

\* _generate_demo_articles(count, symbol): chosen[k] is random.choice(symbols)
\* of the k-th article; with a symbol given the only choice is that symbol.
GenerateDemoArticles(count, symbol, chosen, ledger) ==
    LET ids == FreshIds(count, Range(ledger))
    IN  [k \in 1 .. Len(ids) |->
            [id |-> ids[k],
             symbols |-> {IF symbol # None THEN Upper(symbol) ELSE chosen[k]},
             entities |-> {IF symbol # None THEN Upper(symbol) ELSE chosen[k]}]]

\* What one feed does in one call: it answers 200 with entries (already cut to
\* the per-feed limit), answers another status (whatever the body holds), or
\* the request raises (connection error, timeout, parse error).
FeedOutcomes ==
    {[kind |-> "raises", entries |-> <<>>]}
        \cup {[kind |-> k, entries |-> e] :
                 k \in {"ok", "status"}, e \in SeqsUpTo(RssItems, MaxRss)}

\* A feed that also parses the body of a response whose status is not 200.
FetchSingleFeedIgnoresStatus(outcome) ==
    IF outcome.kind \in {"ok", "status"} THEN outcome.entries ELSE <<>>

\* _fetch_single_feed: the articles of a 200 response; [] for another status
\* and, from the except clause, for any exception.
FetchSingleFeed(outcome) ==
    IF outcome.kind = "ok" THEN outcome.entries ELSE <<>>

RECURSIVE ExtendAll(_, _)
ExtendAll(outcomes, k) ==
    IF k > Len(outcomes) THEN <<>>
    ELSE FetchSingleFeed(outcomes[k]) \o ExtendAll(outcomes, k + 1)

\* A gather without return_exceptions over feeds that do not catch: one
\* failing request fails the whole call.
FetchFromRssPropagates(outcomes) ==
    [raised |-> \E k \in DOMAIN outcomes : outcomes[k].kind = "raises",
     articles |-> ExtendAll(outcomes, 1)]

\* _fetch_from_rss: one task per feed, gathered with return_exceptions=True;
\* the results that are lists are concatenated in feed order.
FetchFromRss(outcomes) ==
    [raised |-> FALSE, articles |-> ExtendAll(outcomes, 1)]

\* articles[:limit] of a Python list.
Prefix(s, limit) ==
    IF limit >= 0 THEN SubSeq(s, 1, Min(limit, Len(s)))
    ELSE SubSeq(s, 1, IF Len(s) + limit > 0 THEN Len(s) + limit ELSE 0)

\* fetch_latest_articles after the daily reset: the feeds, backfill, symbol
\* filter, deduplication, truncation. outcomes is what each feed did. counted
\* is what line 96 adds to the daily counter.
FetchLatestArticles(outcomes, symbol, limit, chosen, ledger) ==
    LET rss == FetchFromRss(outcomes)
        simulated == IF Len(rss.articles) < limit
                     THEN GenerateDemoArticles(limit - Len(rss.articles), symbol,
                                               chosen, ledger)
                     ELSE <<>>
        merged == rss.articles \o simulated
        filtered == IF symbol # None
                    THEN SelectSeq(merged, LAMBDA a : Upper(symbol) \in a.symbols)
                    ELSE merged
        d == Deduplicate(filtered, ledger)
    IN  IF rss.raised
        THEN [raised |-> TRUE, rss |-> <<>>, simulated |-> <<>>, articles |-> <<>>,
              processed_ids |-> ledger, log |-> <<>>, counted |-> 0]
        ELSE [raised |-> FALSE, rss |-> rss.articles, simulated |-> simulated,
              articles |-> Prefix(d.unique, limit),
              processed_ids |-> d.processed_ids,
              log |-> d.log, counted |-> Len(d.unique)]

\* fetch_latest_articles, lines 64-67: the counter restarts when a day or more
\* has passed since last_reset. The clock is the environment's: newDay says
\* whether it has.
DailyReset(count, newDay) == IF newDay THEN 0 ELSE count

\* The inputs of one collect call: what each feed does (at most MaxRss entries
\* in all) and the demo generator's random symbol choices.
RECURSIVE TotalEntries(_, _)
TotalEntries(outcomes, k) ==
    IF k > Len(outcomes) THEN 0
    ELSE Len(outcomes[k].entries) + TotalEntries(outcomes, k + 1)

FeedResults ==
    {o \in [DOMAIN Feeds -> FeedOutcomes] : TotalEntries(o, 1) <= MaxRss}
DemoChoices(limit) == {c \in SeqsUpTo(Symbols, limit) : Len(c) = limit}

\* ------------------------------------------------------------ Scorer
\* analyze_batch: one result per item, in input order. The distribution is the
\* opaque model's; the entities are extracted from the item's text.
ScoreBatch(batch, dist) ==
    [k \in 1 .. Len(batch) |-> [id |-> batch[k].id,
                                entities |-> batch[k].entities,
                                scores |-> dist[k]]]

Distributions(n) == {d \in SeqsUpTo(Scores, n) : Len(d) = n}

\* ------------------------------------------------- VolatilityPredictor
RECURSIVE SumSeq(_)
SumSeq(s) == IF s = <<>> THEN 0 ELSE Head(s) + SumSeq(Tail(s))

\* A net sentiment that leaves the negative score out.
NetIgnoresNegative(obs) == obs.scores.positive

\* item["scores"].get("positive", 0) - item["scores"].get("negative", 0)
Net(obs) == obs.scores.positive - obs.scores.negative

\* Windows that are plain lists: nothing is ever evicted.
HistoryAppendUnbounded(history, entity, obs, maxlen) ==
    IF entity \in DOMAIN history
    THEN [history EXCEPT ![entity] = Append(@, obs)]
    ELSE history @@ (entity :> <<obs>>)

\* self.sentiment_history[entity].append(...): the defaultdict creates the
\* window on first use; the deque keeps the newest maxlen entries.
HistoryAppend(history, entity, obs, maxlen) ==
    IF entity \in DOMAIN history
    THEN [history EXCEPT ![entity] = DequeAppend(@, obs, maxlen)]
    ELSE history @@ (entity :> <<obs>>)

\* The entities of one result in a fixed order (the code iterates the list the
\* Scorer returned; entities are distinct, so the order does not matter).
RECURSIVE SetToSeq(_)
SetToSeq(S) ==
    IF S = {} THEN <<>>
    ELSE LET x == CHOOSE y \in S : TRUE IN <<x>> \o SetToSeq(S \ {x})

RECURSIVE AppendEntities(_, _, _, _)
AppendEntities(history, ents, obs, maxlen) ==
    IF ents = <<>> THEN history
    ELSE AppendEntities(HistoryAppend(history, Head(ents), obs, maxlen), Tail(ents),
                        obs, maxlen)

\* generate_signals, lines 50-60: every (result, entity) pair is appended.
RECURSIVE UpdateHistory(_, _, _)
UpdateHistory(history, rs, maxlen) ==
    IF rs = <<>> THEN history
    ELSE UpdateHistory(
            AppendEntities(history, SetToSeq(Head(rs).entities),
                           [scores |-> Head(rs).scores], maxlen),
            Tail(rs), maxlen)

\* The keys of symbol_sentiments in insertion order: first mention first.
RECURSIVE BatchSymbols(_, _)
BatchSymbols(rs, seen) ==
    IF rs = <<>> THEN <<>>
    ELSE LET new == SetToSeq(Head(rs).entities \ seen)
         IN  new \o BatchSymbols(Tail(rs), seen \cup Head(rs).entities)

\* A momentum that is computed on a window of any length (the average of an
\* empty half is 0.0).
MomentumSignUngated(history, symbol) ==
    LET h == IF symbol \in DOMAIN history THEN history[symbol] ELSE <<>>
        recent == SubSeq(h, IF Len(h) > MomentumTail
                            THEN Len(h) - MomentumTail + 1 ELSE 1, Len(h))
        half == Len(recent) \div 2
        first == SubSeq(recent, 1, half)
        second == SubSeq(recent, half + 1, Len(recent))
        s1 == SumSeq([k \in 1 .. Len(first) |-> Net(first[k])])
        s2 == SumSeq([k \in 1 .. Len(second) |-> Net(second[k])])
        diff == IF first = <<>> THEN s2 ELSE s2 * Len(first) - s1 * Len(second)
    IN  IF diff > 0 THEN 1 ELSE IF diff < 0 THEN -1 ELSE 0

\* _calculate_momentum, as its sign (np.clip to [-1, 1] keeps the sign):
\* mean(second half) - mean(first half) of the last MomentumTail observations.
MomentumSign(history, symbol) ==
    LET h == IF symbol \in DOMAIN history THEN history[symbol] ELSE <<>>
    IN  IF Len(h) < MomentumMinLen THEN 0
        ELSE LET recent == SubSeq(h, IF Len(h) > MomentumTail
                                     THEN Len(h) - MomentumTail + 1 ELSE 1, Len(h))
                 half == Len(recent) \div 2
                 first == SubSeq(recent, 1, half)
                 second == SubSeq(recent, half + 1, Len(recent))
                 s1 == SumSeq([k \in 1 .. Len(first) |-> Net(first[k])])
                 s2 == SumSeq([k \in 1 .. Len(second) |-> Net(second[k])])
                 \* s2/|second| - s1/|first| compared with 0
                 diff == s2 * Len(first) - s1 * Len(second)
             IN  IF diff > 0 THEN 1 ELSE IF diff < 0 THEN -1 ELSE 0

\* A momentum over the whole window instead of its last MomentumTail entries.
MomentumWholeWindow(history, symbol) ==
    LET h == IF symbol \in DOMAIN history THEN history[symbol] ELSE <<>>
    IN  IF Len(h) < MomentumMinLen THEN [num |-> 0, den |-> 1]
        ELSE LET half == Len(h) \div 2
                 first == SubSeq(h, 1, half)
                 second == SubSeq(h, half + 1, Len(h))
                 s1 == SumSeq([k \in 1 .. Len(first) |-> Net(first[k])])
                 s2 == SumSeq([k \in 1 .. Len(second) |-> Net(second[k])])
                 num == s2 * Len(first) - s1 * Len(second)
                 den == 10 * Len(first) * Len(second)
             IN  IF num > den THEN [num |-> 1, den |-> 1]
                 ELSE IF num < 0 - den THEN [num |-> -1, den |-> 1]
                 ELSE [num |-> num, den |-> den]

\* _calculate_momentum, as the exact fraction num / den (den > 0): the nets are
\* in tenths, so mean(second) - mean(first) is
\* (s2 * |first| - s1 * |second|) / (10 * |first| * |second|); np.clip keeps it
\* in [-1, 1].
Momentum(history, symbol) ==
    LET h == IF symbol \in DOMAIN history THEN history[symbol] ELSE <<>>
    IN  IF Len(h) < MomentumMinLen THEN [num |-> 0, den |-> 1]
        ELSE LET recent == SubSeq(h, IF Len(h) > MomentumTail
                                     THEN Len(h) - MomentumTail + 1 ELSE 1, Len(h))
                 half == Len(recent) \div 2
                 first == SubSeq(recent, 1, half)
                 second == SubSeq(recent, half + 1, Len(recent))
                 s1 == SumSeq([k \in 1 .. Len(first) |-> Net(first[k])])
                 s2 == SumSeq([k \in 1 .. Len(second) |-> Net(second[k])])
                 num == s2 * Len(first) - s1 * Len(second)
                 den == 10 * Len(first) * Len(second)
             IN  IF num > den THEN [num |-> 1, den |-> 1]
                 ELSE IF num < 0 - den THEN [num |-> -1, den |-> 1]
                 ELSE [num |-> num, den |-> den]

\* The confidence of a result: the probability of the predicted class, the
\* largest of negative, neutral and positive (they sum to 1, ten tenths).
Confidence(scores) ==
    LET neutral == 10 - scores.positive - scores.negative
        m == IF scores.positive >= scores.negative
             THEN scores.positive ELSE scores.negative
    IN  IF neutral > m THEN neutral ELSE m

\* min(0.95, a * b) for the means a = x / (10 n) and b = conf / (10 n), as the
\* fraction num / den.
Strength(x, conf, n) ==
    IF 20 * x * conf >= 19 * 100 * n * n
    THEN [num |-> 19, den |-> 20]
    ELSE [num |-> x * conf, den |-> 100 * n * n]

\* A classifier whose thresholds include the boundary values.
ClassifyInclusive(pos, neg, conf, n, momentum) ==
    IF pos - neg >= 3 * n /\ momentum >= 0
    THEN [signal |-> "BUY", strength |-> Strength(pos, conf, n)]
    ELSE IF pos - neg <= -3 * n /\ momentum <= 0
    THEN [signal |-> "SELL", strength |-> Strength(neg, conf, n)]
    ELSE [signal |-> "HOLD", strength |-> [num |-> 1, den |-> 2]]

\* _calculate_signal, lines 106-120. pos, neg and conf are the sums over the
\* n results of the batch, in tenths: net_sentiment > 0.3 is pos - neg > 3 * n.
Classify(pos, neg, conf, n, momentum) ==
    IF pos - neg > 3 * n /\ momentum > 0
    THEN [signal |-> "BUY", strength |-> Strength(pos, conf, n)]
    ELSE IF pos - neg < -3 * n /\ momentum < 0
    THEN [signal |-> "SELL", strength |-> Strength(neg, conf, n)]
    ELSE [signal |-> "HOLD", strength |-> [num |-> 1, den |-> 2]]

\* _calculate_signal: the signal of one symbol. sentiment_score is the
\* fraction num / den; momentum is the local of that name (its sign), which
\* the code passes on to the signal's reasoning.
CalculateSignal(history, symbol, rs) ==
    LET mine == SelectSeq(rs, LAMBDA r : symbol \in r.entities)
        n == Len(mine)
        pos == SumSeq([k \in 1 .. n |-> mine[k].scores.positive])
        neg == SumSeq([k \in 1 .. n |-> mine[k].scores.negative])
        conf == SumSeq([k \in 1 .. n |-> Confidence(mine[k].scores)])
        momentum == MomentumSign(history, symbol)
        c == Classify(pos, neg, conf, n, momentum)
    IN  [symbol |-> symbol,
         signal |-> c.signal,
         strength |-> c.strength,
         sentiment_score |-> [num |-> pos - neg, den |-> 10 * n],
         volume |-> n,
         momentum |-> momentum]

\* generate_signals, lines 62-71: one signal per symbol of the batch, computed
\* on the windows that already include the batch.
GenerateSignals(history, rs) ==
    LET syms == BatchSymbols(rs, {})
    IN  [k \in 1 .. Len(syms) |-> CalculateSignal(history, syms[k], rs)]

\* A generate_signals that computes the signals on the windows as they were
\* before the batch was appended.
GenerateSignalsCallStale(history, rs, maxlen) ==
    [history |-> UpdateHistory(history, rs, maxlen),
     signals |-> GenerateSignals(history, rs)]

\* generate_signals as a whole: the loop of lines 50-60 appends the batch to
\* the windows, then the loop of lines 62-66 computes the signals.
GenerateSignalsCall(history, rs, maxlen) ==
    LET appended == UpdateHistory(history, rs, maxlen)
    IN  [history |-> appended, signals |-> GenerateSignals(appended, rs)]

\* self.sentiment_history[symbol]: indexing the defaultdict creates the window.
HistoryGetCreates(history, symbol) ==
    [history |-> IF symbol \in DOMAIN history THEN history
                 ELSE history @@ (symbol :> <<>>),
     window |-> IF symbol \in DOMAIN history THEN history[symbol] ELSE <<>>]

\* self.sentiment_history.get(symbol, []): the dict is left as it is.
HistoryGet(history, symbol) ==
    [history |-> history,
     window |-> IF symbol \in DOMAIN history THEN history[symbol] ELSE <<>>]

\* A tail that is the whole list.
SuffixWhole(s, n) == s

\* s[-n:] of a list.
Suffix(s, n) == SubSeq(s, IF Len(s) > n THEN Len(s) - n + 1 ELSE 1, Len(s))

\* A predict without the insufficient-data branch: the formulas are applied to
\* whatever the window holds (the variance of no values counted as 0).
PredictNoFallback(history, symbol) ==
    LET g == HistoryGet(history, symbol)
        recent == Suffix(g.window, PredictTail)
        n == Len(recent)
        s1 == SumSeq([k \in 1 .. n |-> Net(recent[k])])
        s2 == SumSeq([k \in 1 .. n |-> Net(recent[k]) * Net(recent[k])])
        num == n * s2 - s1 * s1
        den == 10 * n * n
    IN  [history |-> g.history,
         body |-> [symbol |-> symbol,
                   predicted_volatility |->
                       IF n = 0 THEN [num |-> 0, den |-> 1]
                       ELSE IF num >= den THEN [num |-> 1, den |-> 1]
                       ELSE [num |-> num, den |-> den],
                   confidence |-> Min(95, 2 * n),
                   volume |-> n,
                   momentum |-> Momentum(g.history, symbol)]]

\* predict. Numbers are exact: confidence in hundredths; the predicted
\* volatility min(1.0, variance * 10) as the fraction num / den, the variance
\* of n values x (in tenths) being (n * sum(x^2) - sum(x)^2) / (100 * n^2).
Predict(history, symbol) ==
    LET g == HistoryGet(history, symbol)
    IN  IF Len(g.window) < PredictMinLen
        THEN [history |-> g.history,
              body |-> [symbol |-> symbol,
                        predicted_volatility |-> [num |-> 1, den |-> 2],
                        confidence |-> 30, volume |-> 0,
                        momentum |-> [num |-> 0, den |-> 1]]]
        ELSE LET recent == Suffix(g.window, PredictTail)
                 n == Len(recent)
                 s1 == SumSeq([k \in 1 .. n |-> Net(recent[k])])
                 s2 == SumSeq([k \in 1 .. n |-> Net(recent[k]) * Net(recent[k])])
                 num == n * s2 - s1 * s1
                 den == 10 * n * n
             IN  [history |-> g.history,
                  body |-> [symbol |-> symbol,
                            predicted_volatility |->
                                IF num >= den THEN [num |-> 1, den |-> 1]
                                ELSE [num |-> num, den |-> den],
                            confidence |-> Min(95, 2 * n),
                            volume |-> n,
                            momentum |-> Momentum(g.history, symbol)]]

\* get_current_signals(symbol): the cache, or its signals for symbol.upper().
CurrentSignals(signals, symbol) ==
    IF symbol # None
    THEN SelectSeq(signals, LAMBDA s : s.symbol = Upper(symbol))
    ELSE signals

\* get_daily_count.
GetDailyCount(count) == count

\* --------------------------------------------------- ConnectionManager
\* A connect that registers the websocket twice.
ConnectTwice(conns, w) == Append(Append(conns, w), w)

\* connect: self.active_connections.append(websocket), after accept().
Connect(conns, w) == Append(conns, w)

\* disconnect: list.remove(websocket), which raises ValueError for a
\* websocket that is not in the list and leaves the list as it was.
Disconnect(conns, w) ==
    IF w \in Range(conns)
    THEN [conns |-> ListRemove(conns, w), raised |-> FALSE]
    ELSE [conns |-> conns, raised |-> TRUE]

\* A broadcast that collects the failed connections and never removes them.
PruneNothing(conns, disc) == conns

\* broadcast, lines 55-57: remove the collected connections still in the list.
RECURSIVE Prune(_, _)
Prune(conns, disc) ==
    IF disc = <<>> THEN conns
    ELSE Prune(IF Head(disc) \in Range(conns) THEN ListRemove(conns, Head(disc))
               ELSE conns,
               Tail(disc))

\* The list iterator of `for connection in self.active_connections`: it holds
\* an index into the live list and stops when the index is past the end.
IterHasNext(conns, idx) == idx < Len(conns)
IterNext(conns, idx) == conns[idx + 1]

NoBroadcast == [start |-> <<>>, delivered |-> {}, failed |-> {}, sent |-> <<>>,
                interfered |-> FALSE, done |-> FALSE, atReturn |-> {},
                message |-> [results |-> <<>>, signals |-> <<>>]]

Sweeping == driverPc = "broadcasting" /\ bCur # None

\* The history of the step just taken, when it was no collect call and served
\* no request.
NoCollect == [caller |-> "none"]
NoResponse == [op |-> "none"]
NoCallLog ==
    /\ dedupLog' = <<>>
    /\ collectLog' = NoCollect
    /\ response' = NoResponse

\* ------------------------------------------------------------ Init
Init ==
    /\ processed_ids = <<>>
    /\ sentiment_history = <<>>
    /\ current_signals = <<>>
    /\ observed = {}
    /\ driverPc = "collecting"
    /\ articles = <<>>
    /\ sliceAt = 0
    /\ results = <<>>
    /\ sleepSecs = 0
    /\ active_connections = <<>>
    /\ wsPc = [w \in WS |-> "new"]
    /\ bIdx = 0
    /\ bCur = None
    /\ disconnected = <<>>
    /\ dedupLog = <<>>
    /\ raisedIn = None
    /\ bcast = NoBroadcast
    /\ daily_count = 0
    /\ collectLog = NoCollect
    /\ response = NoResponse

\* ------------------------------------------------------------ Driver
\* A loop that starts over at the first slice as long as there are articles.
LoopFromRepeats(arts, i) ==
    IF arts # <<>>
    THEN /\ driverPc' = "scoring"
         /\ articles' = arts
         /\ sliceAt' = 0
         /\ sleepSecs' = 0
         /\ results' = <<>>
    ELSE /\ driverPc' = "throttling"
         /\ articles' = <<>>
         /\ sliceAt' = 0
         /\ sleepSecs' = ThrottleSecs
         /\ results' = <<>>

\* The for loop over the slices, entered at index i: the next slice is handed
\* to the Scorer, or the loop is over and the Driver sleeps the throttle.
LoopFrom(arts, i) ==
    IF i < Len(arts)
    THEN /\ driverPc' = "scoring"
         /\ articles' = arts
         /\ sliceAt' = i
         /\ sleepSecs' = 0
         /\ results' = <<>>
    ELSE /\ driverPc' = "throttling"
         /\ articles' = <<>>
         /\ sliceAt' = 0
         /\ sleepSecs' = ThrottleSecs
         /\ results' = <<>>

\* A handler that sleeps the normal throttle after an exception.
OnExceptionShortSleep(stage) ==
    /\ driverPc' = "recovering"
    /\ sleepSecs' = ThrottleSecs
    /\ raisedIn' = stage
    /\ articles' = <<>>
    /\ sliceAt' = 0
    /\ results' = <<>>

\* except Exception: the error is logged and the Driver sleeps the recovery delay.
OnException(stage) ==
    /\ driverPc' = "recovering"
    /\ sleepSecs' = RecoverySecs
    /\ raisedIn' = stage
    /\ articles' = <<>>
    /\ sliceAt' = 0
    /\ results' = <<>>

\* The sweep of broadcast from iterator index idx with disc collected so far:
\* either the next connection is sent to (the send is awaited), or the sweep is
\* over, the collected connections are pruned and broadcast returns to the
\* slice loop.
SweepFrom(idx, disc, b) ==
    IF IterHasNext(active_connections, idx)
    THEN /\ bCur' = IterNext(active_connections, idx)
         /\ bIdx' = idx + 1
         /\ disconnected' = disc
         /\ bcast' = b
         /\ UNCHANGED <<active_connections, driverPc, articles, sliceAt, results,
                        sleepSecs>>
    ELSE LET left == Prune(active_connections, disc)
         IN  /\ active_connections' = left
             /\ bCur' = None
             /\ bIdx' = 0
             /\ disconnected' = <<>>
             /\ bcast' = [b EXCEPT !.done = TRUE, !.atReturn = Range(left)]
             /\ LoopFrom(articles, sliceAt + BatchSize)

\* fetch_latest_articles() returns to the Driver. feeds is what the sources can
\* do in the call, days whether a day can have passed since last_reset.
DriverCollectReturn(feeds, days) ==
    /\ driverPc = "collecting"
    /\ \E outcomes \in feeds, chosen \in DemoChoices(DefaultLimit), newDay \in days :
          \E f \in {FetchLatestArticles(outcomes, None, DefaultLimit, chosen,
                                        processed_ids)} :
              /\ DailyReset(daily_count, newDay) + f.counted <= MaxDaily
              /\ processed_ids' = f.processed_ids
              /\ observed' = observed \cap Range(f.processed_ids)
              /\ daily_count' = DailyReset(daily_count, newDay) + f.counted
              /\ dedupLog' = f.log
              /\ collectLog' = [caller |-> "driver", outcomes |-> outcomes,
                                rss |-> f.rss, raised |-> f.raised,
                                symbol |-> None, limit |-> DefaultLimit,
                                simulated |-> f.simulated, returned |-> f.articles]
              /\ IF f.raised
                 THEN OnException("collecting")
                 ELSE (LoopFrom(f.articles, 0) /\ raisedIn' = None)
    /\ response' = NoResponse
    /\ bcast' = NoBroadcast
    /\ UNCHANGED <<engineVars, active_connections, wsPc, bIdx, bCur, disconnected>>

\* fetch_latest_articles raises outside the feeds (the session cannot be
\* created): the daily reset of lines 64-67 has run, nothing else.
DriverCollectRaises(days) ==
    /\ driverPc = "collecting"
    /\ \E newDay \in days : daily_count' = DailyReset(daily_count, newDay)
    /\ OnException("collecting")
    /\ NoCallLog
    /\ bcast' = NoBroadcast
    /\ UNCHANGED <<observed, processed_ids, engineVars, active_connections, wsPc, bIdx, bCur,
                   disconnected>>

DriverScoreReturn ==
    /\ driverPc = "scoring"
    /\ LET batch == SubSeq(articles, sliceAt + 1,
                           Min(sliceAt + BatchSize, Len(articles)))
       IN  \E dist \in Distributions(Len(batch)) :
              results' = ScoreBatch(batch, dist)
    /\ driverPc' = "signaling"
    /\ NoCallLog
    /\ bcast' = NoBroadcast
    /\ UNCHANGED <<observed, aggVars, engineVars, articles, sliceAt, sleepSecs, raisedIn,
                   active_connections, wsPc, bIdx, bCur, disconnected>>

DriverScoreRaises ==
    /\ driverPc = "scoring"
    /\ OnException("scoring")
    /\ NoCallLog
    /\ bcast' = NoBroadcast
    /\ UNCHANGED <<observed, aggVars, engineVars, active_connections, wsPc, bIdx, bCur,
                   disconnected>>

\* The fingerprints of the results that add an observation to some window
\* (generate_signals, lines 50-60: one per entity of the result).
Observing(rs) == {rs[k].id : k \in {j \in DOMAIN rs : rs[j].entities # {}}}

\* generate_signals(results) returns. maxlen is the capacity of the windows,
\* tracked the fingerprints whose observing is recorded in the history.
DriverSignal(maxlen, tracked) ==
    /\ driverPc = "signaling"
    /\ \E g \in {GenerateSignalsCall(sentiment_history, results, maxlen)} :
          /\ sentiment_history' = g.history
          /\ current_signals' = g.signals
    /\ observed' = observed \cup (Observing(results) \cap Range(processed_ids) \cap tracked)
    /\ driverPc' = "broadcasting"
    /\ NoCallLog
    /\ UNCHANGED <<aggVars, articles, sliceAt, results, sleepSecs, raisedIn, hubVars>>

\* generate_signals from line 62 on: the observations of the batch are in the
\* windows, the signals are computed and cached.
CalculateSignals ==
    /\ driverPc = "signaling"
    /\ results # <<>>
    /\ current_signals' = GenerateSignals(sentiment_history, results)
    /\ driverPc' = "broadcasting"
    /\ NoCallLog
    /\ UNCHANGED <<observed, aggVars, sentiment_history, articles, sliceAt, results, sleepSecs,
                   raisedIn, hubVars>>

\* generate_signals raises: before the windows are touched, or in
\* _calculate_signal, after every observation of the batch has been appended.
DriverSignalRaises(tracked) ==
    /\ driverPc = "signaling"
    /\ \E appended \in BOOLEAN :
          /\ sentiment_history' = IF appended
                                  THEN UpdateHistory(sentiment_history, results,
                                                     HistoryMaxLen)
                                  ELSE sentiment_history
          /\ observed' = IF appended
                         THEN observed \cup (Observing(results) \cap Range(processed_ids)
                                                                  \cap tracked)
                         ELSE observed
    /\ OnException("signaling")
    /\ NoCallLog
    /\ UNCHANGED <<aggVars, current_signals, hubVars>>

\* Building the message (r.dict(), s.dict()) raises before broadcast is called.
DriverBroadcastRaises ==
    /\ driverPc = "broadcasting"
    /\ bCur = None
    /\ OnException("broadcasting")
    /\ NoCallLog
    /\ UNCHANGED <<observed, aggVars, engineVars, hubVars>>

DriverBroadcastStart ==
    /\ driverPc = "broadcasting"
    /\ bCur = None
    /\ SweepFrom(0, <<>>,
                 [NoBroadcast EXCEPT !.start = active_connections,
                                     !.message = [results |-> results,
                                                  signals |-> current_signals]])
    /\ NoCallLog
    /\ UNCHANGED <<observed, aggVars, engineVars, wsPc, raisedIn>>

\* connection.send_json returns or raises; the loop goes on either way.
DriverSendReturn ==
    /\ Sweeping
    /\ \E ok \in BOOLEAN :
          IF ok
          THEN SweepFrom(bIdx, disconnected,
                         [bcast EXCEPT !.delivered = @ \cup {bCur},
                                       !.sent = Append(@, bCur)])
          ELSE SweepFrom(bIdx, Append(disconnected, bCur),
                         [bcast EXCEPT !.failed = @ \cup {bCur},
                                       !.sent = Append(@, bCur)])
    /\ NoCallLog
    /\ UNCHANGED <<observed, aggVars, engineVars, wsPc, raisedIn>>

\* A Driver whose loop ends after the recovery sleep instead of going round.
DriverWakeEndsLoop ==
    /\ driverPc \in {"throttling", "recovering"}
    /\ driverPc' = IF driverPc = "recovering" THEN "stopped" ELSE "collecting"
    /\ sleepSecs' = 0
    /\ raisedIn' = IF driverPc = "recovering" THEN "recovered" ELSE None
    /\ NoCallLog
    /\ bcast' = NoBroadcast
    /\ UNCHANGED <<observed, aggVars, engineVars, articles, sliceAt, results,
                   active_connections, wsPc, bIdx, bCur, disconnected>>

\* asyncio.sleep returns: the while loop calls fetch_latest_articles again.
DriverWake ==
    /\ driverPc \in {"throttling", "recovering"}
    /\ driverPc' = "collecting"
    /\ sleepSecs' = 0
    /\ raisedIn' = IF driverPc = "recovering" THEN "recovered" ELSE None
    /\ NoCallLog
    /\ bcast' = NoBroadcast
    /\ UNCHANGED <<observed, aggVars, engineVars, articles, sliceAt, results,
                   active_connections, wsPc, bIdx, bCur, disconnected>>

\* ------------------------------------------------------ transport layer
\* websocket_sentiment: manager.connect(websocket).
WsConnect(w) ==
    /\ wsPc[w] = "new"
    /\ active_connections' = Connect(active_connections, w)
    /\ wsPc' = [wsPc EXCEPT ![w] = "open"]
    /\ bcast' = IF Sweeping THEN [bcast EXCEPT !.interfered = TRUE] ELSE bcast
    /\ NoCallLog
    /\ UNCHANGED <<observed, aggVars, engineVars, driverVars, bIdx, bCur, disconnected>>

\* websocket_sentiment: the receive loop ends with WebSocketDisconnect or any
\* other exception, and the handler calls manager.disconnect(websocket). A
\* ValueError raised there leaves the handler unhandled.
WsDisconnect(w) ==
    /\ wsPc[w] = "open"
    /\ LET d == Disconnect(active_connections, w)
       IN  /\ active_connections' = d.conns
           /\ wsPc' = [wsPc EXCEPT ![w] = IF d.raised THEN "error" ELSE "closed"]
    /\ bcast' = IF Sweeping THEN [bcast EXCEPT !.interfered = TRUE] ELSE bcast
    /\ NoCallLog
    /\ UNCHANGED <<observed, aggVars, engineVars, driverVars, bIdx, bCur, disconnected>>

\* -------------------------------------------------------- request layer
ReqSymbols == {None, "aapl", "Apple"} \cup Symbols

\* GET /api/news/latest: fetch_latest_articles(symbol, limit) on the shared
\* DataAggregator.
GetLatestNews(feeds, days) ==
    /\ \E symbol \in ReqSymbols, limit \in 1 .. MaxLimit :
          \E outcomes \in feeds, chosen \in DemoChoices(limit), newDay \in days :
             \E f \in {FetchLatestArticles(outcomes, symbol, limit, chosen,
                                           processed_ids)} :
                 /\ DailyReset(daily_count, newDay) + f.counted <= MaxDaily
                 /\ processed_ids' = f.processed_ids
                 /\ observed' = observed \cap Range(f.processed_ids)
                 /\ daily_count' = DailyReset(daily_count, newDay) + f.counted
                 /\ dedupLog' = f.log
                 /\ collectLog' = [caller |-> "request", outcomes |-> outcomes,
                                   rss |-> f.rss, raised |-> f.raised,
                                   symbol |-> symbol, limit |-> limit,
                                   simulated |-> f.simulated,
                                   returned |-> f.articles]
                 /\ response' = IF f.raised
                                THEN [op |-> "news", status |-> 500]
                                ELSE [op |-> "news", status |-> 200,
                                      body |-> f.articles]
    /\ UNCHANGED <<engineVars, driverVars, hubVars>>

\* GET /api/signals/current: volatility_predictor.get_current_signals(symbol).
GetCurrentSignals ==
    /\ \E symbol \in ReqSymbols :
          response' = [op |-> "signals", status |-> 200, symbol |-> symbol,
                       body |-> CurrentSignals(current_signals, symbol)]
    /\ dedupLog' = <<>>
    /\ collectLog' = NoCollect
    /\ UNCHANGED <<observed, aggVars, engineVars, driverVars, hubVars>>

\* GET /api/volatility/predict: volatility_predictor.predict(symbol).
PredictVolatility ==
    /\ \E symbol \in ReqSymbols \ {None} :
          LET p == Predict(sentiment_history, symbol)
          IN  /\ sentiment_history' = p.history
              /\ response' = [op |-> "predict", status |-> 200, body |-> p.body]
    /\ dedupLog' = <<>>
    /\ collectLog' = NoCollect
    /\ UNCHANGED <<observed, aggVars, current_signals, driverVars, hubVars>>

\* GET /api/stats: data_aggregator.get_daily_count() and the registry's size.
GetPlatformStats ==
    /\ response' = [op |-> "stats", status |-> 200,
                    body |-> [articles_processed_today |-> GetDailyCount(daily_count),
                              active_connections |-> Len(active_connections)]]
    /\ dedupLog' = <<>>
    /\ collectLog' = NoCollect
    /\ UNCHANGED <<observed, aggVars, engineVars, driverVars, hubVars>>

\* ------------------------------------------------------------ Next
Stages == {"collecting", "scoring", "signaling", "broadcasting"}

DriverNext(feeds, days) ==
    \/ DriverCollectReturn(feeds, days)
    \/ DriverCollectRaises(days)
    \/ DriverScoreReturn
    \/ DriverScoreRaises
    \/ DriverSignal(HistoryMaxLen, {})
    \/ DriverSignalRaises({})
    \/ DriverBroadcastStart
    \/ DriverBroadcastRaises
    \/ DriverSendReturn
    \/ DriverWake

\* Every feed is down: each request raises.
FeedsDown == {[k \in DOMAIN Feeds |-> [kind |-> "raises", entries |-> <<>>]]}

\* Only the first feed answers; the others raise.
FirstFeedOnly ==
    {o \in FeedResults :
        /\ o[1].kind = "ok"
        /\ \A k \in DOMAIN o : k > 1 => o[k].kind = "raises"}

\* The clock: a day may or may not have passed since last_reset; or every
\* collect call is made on a later day than the one before.
\* The first feed answers, with entries some of which have no link.
LinklessFeed ==
    {[k \in DOMAIN Feeds |->
         IF k = 1 THEN [kind |-> "ok", entries |-> e]
         ELSE [kind |-> "raises", entries |-> <<>>]] :
        e \in SeqsUpTo(RssItems \cup LinklessItems, MaxRss)}

AnyDay == BOOLEAN
DayApart == {TRUE}

\* The whole system.
Next ==
    \/ DriverNext(FeedResults, AnyDay)
    \/ \E w \in WS : WsConnect(w)
    \/ \E w \in WS : WsDisconnect(w)
    \/ GetLatestNews(FeedResults, AnyDay)
    \/ GetCurrentSignals
    \/ PredictVolatility
    \/ GetPlatformStats

Spec == Init /\ [][Next]_vars

\* The whole system while every feed is down and one WebSocket client exists.
OneClient == {"w1"}

NextData ==
    \/ DriverNext(FeedsDown, DayApart)
    \/ \E w \in OneClient : WsConnect(w)
    \/ \E w \in OneClient : WsDisconnect(w)
    \/ GetLatestNews(FeedsDown, DayApart)
    \/ GetCurrentSignals
    \/ PredictVolatility
    \/ GetPlatformStats

SpecData == Init /\ [][NextData]_vars

\* The Driver and the transport layer while every feed is down (each collect
\* call is backfilled with demo articles) and no news request arrives.
NextHub ==
    \/ DriverNext(FeedsDown, DayApart)
    \/ \E w \in WS : WsConnect(w)
    \/ \E w \in WS : WsDisconnect(w)

SpecHub == Init /\ [][NextHub]_vars

\* The Driver with one feed answering (entries can repeat from call to call)
\* and one WebSocket client.
NextPipeline ==
    \/ DriverNext(FirstFeedOnly, DayApart)
    \/ \E w \in OneClient : WsConnect(w)
    \/ \E w \in OneClient : WsDisconnect(w)

SpecPipeline == Init /\ [][NextPipeline]_vars

\* The same with two WebSocket clients, and the event loop running the Driver
\* whenever it can run: every await of the Driver returns or raises.
TwoClients == {"w1", "w2"}

NextDriver ==
    \/ DriverNext(FeedsDown, DayApart)
    \/ \E w \in TwoClients : WsConnect(w)
    \/ \E w \in TwoClients : WsDisconnect(w)

FairSpecDriver == Init /\ [][NextDriver]_vars /\ WF_vars(DriverNext(FeedsDown, DayApart))

\* The collect calls of the Driver and of the request layer while the Scorer
\* is unavailable (every cycle that has articles aborts at the scoring stage).
NextLedger ==
    \/ DriverCollectReturn(FirstFeedOnly, DayApart)
    \/ DriverCollectRaises(DayApart)
    \/ DriverScoreRaises
    \/ DriverWake
    \/ GetLatestNews(FirstFeedOnly, DayApart)

SpecLedger == Init /\ [][NextLedger]_vars

\* The Driver's collect calls against every behaviour of the feeds, nothing
\* but the feeds failing in fetch_latest_articles, the Scorer unavailable.
NextCollect ==
    \/ DriverCollectReturn(FeedResults, DayApart)
    \/ DriverScoreRaises
    \/ DriverWake

SpecCollect == Init /\ [][NextCollect]_vars

\* The Driver's collect calls on a feed with entries that have no link.
NextFingerprint ==
    \/ DriverCollectReturn(LinklessFeed, DayApart)
    \/ DriverScoreRaises
    \/ DriverWake

SpecFingerprint == Init /\ [][NextFingerprint]_vars

\* The Driver alone with one feed that answers, entries repeating from cycle to
\* cycle, any stage after the collect call failing; the history records which
\* fingerprints have added observations while retained in the Ledger.
NextAtMostOnce ==
    \/ DriverCollectReturn(FirstFeedOnly, DayApart)
    \/ DriverCollectRaises(DayApart)
    \/ DriverScoreReturn
    \/ DriverScoreRaises
    \/ DriverSignal(HistoryMaxLen, Ids)
    \/ DriverSignalRaises(Ids)
    \/ DriverBroadcastStart
    \/ DriverBroadcastRaises
    \/ DriverWake

SpecAtMostOnce == Init /\ [][NextAtMostOnce]_vars

\* The daily counter: collect calls of the request layer, a day having passed
\* since the last reset or not, and requests for the statistics.
NextCounter ==
    \/ GetLatestNews(FirstFeedOnly, AnyDay)
    \/ GetPlatformStats

SpecCounter == Init /\ [][NextCounter]_vars

\* The Driver with one feed that answers and requests for the current signals;
\* no subscriber ever connects, so a broadcast sends nothing.
NextCache ==
    \/ DriverCollectReturn(FirstFeedOnly, DayApart)
    \/ DriverCollectRaises(DayApart)
    \/ DriverScoreReturn
    \/ DriverScoreRaises
    \/ DriverSignal(HistoryMaxLen, {})
    \/ DriverSignalRaises({})
    \/ DriverBroadcastStart
    \/ DriverBroadcastRaises
    \/ DriverWake
    \/ GetCurrentSignals

SpecCache == Init /\ [][NextCache]_vars

\* ------------------------------------------------- the signal rule alone
\* The signal computation on windows of the lengths the momentum rule is about
\* (the program's windows hold up to 100 observations): the Driver is inside
\* generate_signals, the batch has just been appended to the window (line 60).
SignalScores ==
    Scores \cup {[positive |-> 5, negative |-> 2], [positive |-> 2, negative |-> 5]}

\* A distribution whose net sentiment is v tenths.
NetScores(v) ==
    IF v >= 0 THEN [positive |-> v, negative |-> 0]
    ELSE [positive |-> 0, negative |-> 0 - v]

\* The members of a set of net sentiments in increasing order.
Ascending(S) ==
    SelectSeq([k \in 1 .. 2 * NetRange + 1 |-> k - NetRange - 1], LAMBDA x : x \in S)

Reverse(s) == [k \in 1 .. Len(s) |-> s[Len(s) + 1 - k]]

\* A block of equal observations followed by a batch of any distributions.
BlockWindows ==
    {[window |-> [k \in 1 .. m |-> a] \o b, batch |-> Len(b)] :
        a \in SignalScores, m \in 0 .. MaxPrior,
        b \in SeqsUpTo(SignalScores, BatchSize) \ {<<>>}}

\* Strictly increasing and strictly decreasing windows, with any gaps; the
\* batch is the newest observation.
MonotoneWindows ==
    {[window |-> LET s == IF up THEN Ascending(S) ELSE Reverse(Ascending(S))
                 IN  [k \in 1 .. Len(s) |-> NetScores(s[k])],
      batch |-> 1] :
        S \in (SUBSET (0 - NetRange .. NetRange)) \ {{}}, up \in BOOLEAN}

\* Runs of consecutive tenths, up and down, over the whole range of a net
\* sentiment: up to 21 observations.
RunWindows ==
    {[window |-> [k \in 1 .. r[2] |->
                     NetScores(IF up THEN r[1] + k - 1 ELSE r[1] + r[2] - k)],
      batch |-> 1] :
        r \in {x \in (-10 .. 10) \X (1 .. 21) : x[1] + x[2] - 1 <= 10}, up \in BOOLEAN}

\* Constant windows.
ConstantWindows ==
    {[window |-> [k \in 1 .. m |-> NetScores(v)], batch |-> 1] :
        v \in 0 - NetRange .. NetRange, m \in 1 .. MaxPrior + 1}

SignalCases == BlockWindows \cup MonotoneWindows \cup RunWindows \cup ConstantWindows

InitSignal ==
    \E c \in SignalCases :
        LET n == Len(c.window)
            batch == [k \in 1 .. c.batch |->
                         [id |-> k, symbols |-> {"AAPL"}, entities |-> {"AAPL"}]]
        IN  /\ sentiment_history = ("AAPL" :> [k \in 1 .. n |-> [scores |-> c.window[k]]])
            /\ results = ScoreBatch(batch, Suffix(c.window, c.batch))
            /\ articles = batch
            /\ processed_ids = Suffix([k \in 1 .. c.batch |-> k], Capacity)
            /\ daily_count = c.batch
            /\ current_signals = <<>>
            /\ observed = {}
            /\ driverPc = "signaling"
            /\ sliceAt = 0
            /\ sleepSecs = 0
            /\ active_connections = <<>>
            /\ wsPc = [w \in WS |-> "new"]
            /\ bIdx = 0
            /\ bCur = None
            /\ disconnected = <<>>
            /\ dedupLog = <<>>
            /\ raisedIn = None
            /\ bcast = NoBroadcast
            /\ collectLog = NoCollect
            /\ response = NoResponse

NextSignal == CalculateSignals

SpecSignal == InitSignal /\ [][NextSignal]_vars

\* --------------------------------------------------- generate_signals alone
\* One generate_signals call on windows of the lengths the momentum rule is
\* about, with the program's window capacity: the Driver has the scored
\* results of a slice, the window holds a block of equal observations.
InitBatch ==
    \E a \in SignalScores, m \in 0 .. MaxPrior,
       b \in SeqsUpTo(SignalScores, BatchSize) \ {<<>>} :
        LET batch == [k \in 1 .. Len(b) |->
                         [id |-> k, symbols |-> {"AAPL"}, entities |-> {"AAPL"}]]
        IN  /\ sentiment_history =
                  IF m = 0 THEN <<>> ELSE ("AAPL" :> [k \in 1 .. m |-> [scores |-> a]])
            /\ results = ScoreBatch(batch, b)
            /\ articles = batch
            /\ processed_ids = Suffix([k \in 1 .. Len(b) |-> k], Capacity)
            /\ daily_count = Len(b)
            /\ current_signals = <<>>
            /\ observed = {}
            /\ driverPc = "signaling"
            /\ sliceAt = 0
            /\ sleepSecs = 0
            /\ active_connections = <<>>
            /\ wsPc = [w \in WS |-> "new"]
            /\ bIdx = 0
            /\ bCur = None
            /\ disconnected = <<>>
            /\ dedupLog = <<>>
            /\ raisedIn = None
            /\ bcast = NoBroadcast
            /\ collectLog = NoCollect
            /\ response = NoResponse

NextBatch == DriverSignal(WindowCapacity, {})

SpecBatch == InitBatch /\ [][NextBatch]_vars

\* ---------------------------------------------------------- predict alone
\* predict on windows of every length up to MaxWindow (the program's windows
\* hold up to 100 observations): the Driver is between two passes, the cache
\* holds the signals of the last batch or nothing.
\* Two blocks of equal observations, the older one first.
TwoBlockWindows ==
    {[k \in 1 .. w[1] + w[2] |-> IF k <= w[1] THEN a ELSE b] :
        a \in SignalScores, b \in SignalScores,
        w \in {x \in (0 .. MaxWindow) \X (0 .. MaxWindow) : x[1] + x[2] <= MaxWindow}}

PredictWindows == TwoBlockWindows \cup {c.window : c \in MonotoneWindows \cup RunWindows}

InitPredict ==
    \E window \in PredictWindows, cached \in BOOLEAN :
        LET h == IF window = <<>> THEN <<>>
                 ELSE ("AAPL" :> [k \in 1 .. Len(window) |-> [scores |-> window[k]]])
            last == <<[id |-> 1, entities |-> {"AAPL"}, scores |-> window[Len(window)]]>>
        IN  /\ cached => window # <<>>
            /\ sentiment_history = h
            /\ current_signals = IF cached THEN GenerateSignals(h, last) ELSE <<>>
            /\ observed = {}
            /\ processed_ids = IF window = <<>> THEN <<>> ELSE <<1>>
            /\ daily_count = IF window = <<>> THEN 0 ELSE 1
            /\ driverPc = "collecting"
            /\ articles = <<>>
            /\ sliceAt = 0
            /\ results = <<>>
            /\ sleepSecs = 0
            /\ active_connections = <<>>
            /\ wsPc = [w \in WS |-> "new"]
            /\ bIdx = 0
            /\ bCur = None
            /\ disconnected = <<>>
            /\ dedupLog = <<>>
            /\ raisedIn = None
            /\ bcast = NoBroadcast
            /\ collectLog = NoCollect
            /\ response = NoResponse

NextPredict == PredictVolatility

SpecPredict == InitPredict /\ [][NextPredict]_vars

\* ============================================================ claims

\* C1: across any sequence of _deduplicate calls, an item is never forwarded
\* while its fingerprint is in the Ledger. (Every Ledger entry was put there
\* when an item with that fingerprint was forwarded, so "in the Ledger" is
\* "forwarded earlier and still retained".)
C1_NoForwardWhileInLedger ==
    \A k \in DOMAIN dedupLog : dedupLog[k].kept => ~dedupLog[k].inLedger

\* A call that kept an item and later dropped a repeat of it, whose
\* fingerprint was then in the Ledger.
C1_Witness ==
    \E j, k \in DOMAIN dedupLog :
        /\ j < k
        /\ dedupLog[j].id = dedupLog[k].id
        /\ dedupLog[j].kept
        /\ ~dedupLog[k].kept
        /\ dedupLog[k].inLedger

\* C2: every subscriber in the active set when a broadcast starts has received
\* the message or is out of the active set when the broadcast returns, also
\* when connects and disconnects interleave with the sweep.
C2_StartersServedOrPruned ==
    bcast.done =>
        \A s \in Range(bcast.start) : s \in bcast.delivered \/ s \notin bcast.atReturn

\* C3: the active collection is not modified while a broadcast iterates over
\* it: no step taken during a sweep, other than the one that ends it, changes
\* active_connections.
C3_NoMutationDuringSweep ==
    [][(Sweeping /\ Sweeping') => active_connections' = active_connections]_vars

\* C4: a broadcast with no concurrent connect or disconnect attempts every
\* subscriber of the active set once; those whose send succeeded have the
\* message and are still active at the return, those whose send failed are
\* not active at the return.
C4_BroadcastIsolation ==
    (bcast.done /\ ~bcast.interfered) =>
        /\ bcast.delivered \cup bcast.failed = Range(bcast.start)
        /\ bcast.delivered \cap bcast.failed = {}
        /\ \A s \in bcast.delivered : s \in bcast.atReturn
        /\ \A s \in bcast.failed : s \notin bcast.atReturn

\* Three subscribers, the second one failing: the first and the third received
\* and stay, the second is removed.
C4_Witness ==
    /\ bcast.done
    /\ ~bcast.interfered
    /\ Len(bcast.start) = 3
    /\ bcast.failed = {bcast.start[2]}
    /\ bcast.delivered = {bcast.start[1], bcast.start[3]}
    /\ bcast.atReturn = {bcast.start[1], bcast.start[3]}

\* C5: disconnect of a subscriber that is not in the active set leaves the set
\* unchanged and raises nothing (the handler ends normally).
C5_DisconnectNonMemberNoOp ==
    [][\A w \in WS :
          (wsPc[w] = "open" /\ wsPc'[w] # "open" /\ w \notin Range(active_connections))
              => (active_connections' = active_connections /\ wsPc'[w] = "closed")]_vars

\* C6: when a stage raises, the Driver goes to the recovery sleep of
\* RecoverySecs; while it recovers no stage runs (windows, cache and registry
\* sweep untouched) and its next state is collecting.
C6_FailureAborts ==
    [][/\ (raisedIn' \in Stages /\ raisedIn \notin Stages) =>
              /\ raisedIn' = driverPc
              /\ driverPc' = "recovering"
              /\ sleepSecs' = RecoverySecs
              /\ bCur' = None
       /\ driverPc = "recovering" =>
              /\ driverPc' \in {"recovering", "collecting"}
              /\ driverPc' = "recovering" => sleepSecs' = RecoverySecs
              /\ bCur' = None
              /\ UNCHANGED <<sentiment_history, current_signals, articles, results>>]_vars

\* The Driver sleeps the recovery delay after its signal stage raised.
C6_Witness ==
    /\ driverPc = "recovering"
    /\ raisedIn = "signaling"
    /\ sleepSecs = RecoverySecs

\* C7: under fairness the Driver reaches collecting again and again, whatever
\* stages and sends fail.
C7_DriverNeverStops == []<>(driverPc = "collecting")

\* The Driver is collecting again after a cycle that raised.
C7_Witness == driverPc = "collecting" /\ raisedIn = "recovered"

\* C8: the Ledger changes only in the step in which the Driver's collect call
\* returns, the windows and the signal cache only in the Driver's signal stage.
C8_OnlyDriverMutates ==
    [][/\ processed_ids' # processed_ids =>
              (driverPc = "collecting" /\ driverPc' # "collecting")
       /\ (sentiment_history' # sentiment_history \/ current_signals' # current_signals) =>
              (driverPc = "signaling" /\ driverPc' # "signaling")]_vars

\* C9: the Deduplicator drops an item exactly when its fingerprint is in the
\* Ledger at that moment.
C9_DropIffInLedger ==
    \A k \in DOMAIN dedupLog : dedupLog[k].kept <=> ~dedupLog[k].inLedger

\* C10: the Ledger never holds more than Capacity fingerprints, and once a
\* fingerprint has been inserted into a full Ledger its size is Capacity.
C10_LedgerBounded ==
    /\ Len(processed_ids) <= Capacity
    /\ (\E k \in DOMAIN dedupLog : dedupLog[k].kept /\ dedupLog[k].full)
           => Len(processed_ids) = Capacity

\* A new fingerprint was inserted into a Ledger that was at capacity.
C10_Witness ==
    /\ \E k \in DOMAIN dedupLog : dedupLog[k].kept /\ dedupLog[k].full
    /\ Len(processed_ids) = Capacity

\* The Ledger after the decisions of one _deduplicate call, as strict FIFO
\* eviction has it: a kept fingerprint goes to the newest end and pushes out
\* the entry inserted earliest when the Ledger is full; an item whose
\* fingerprint is in the Ledger changes nothing.
RECURSIVE C11_Replay(_, _)
C11_Replay(log, ledger) ==
    IF log = <<>> THEN ledger
    ELSE LET e == Head(log)
             next == IF e.inLedger \/ ~e.kept THEN ledger
                     ELSE IF Len(ledger) >= Capacity THEN Append(Tail(ledger), e.id)
                     ELSE Append(ledger, e.id)
         IN  C11_Replay(Tail(log), next)

\* C11: Ledger eviction is strict FIFO: every _deduplicate call leaves the
\* Ledger as inserting its kept fingerprints in order, each evicting the
\* earliest-inserted entry of a full Ledger, leaves it; a duplicate of a
\* fingerprint in the Ledger neither moves it nor changes the Ledger.
C11_FifoEviction ==
    [][dedupLog' # <<>> => processed_ids' = C11_Replay(dedupLog', processed_ids)]_vars

\* A call that inserted into a full Ledger and also saw a duplicate of a
\* fingerprint the Ledger held.
C11_Witness ==
    /\ \E k \in DOMAIN dedupLog : dedupLog[k].kept /\ dedupLog[k].full
    /\ \E k \in DOMAIN dedupLog : ~dedupLog[k].kept /\ dedupLog[k].inLedger

\* C12 as claimed: when two _deduplicate calls in succession are given the
\* same sequence, and its distinct fingerprints fit in the Ledger, the second
\* call keeps nothing and leaves the Ledger unchanged.
C12_SecondCallEmpty ==
    [][(/\ dedupLog # <<>>
        /\ Len(dedupLog') = Len(dedupLog)
        /\ \A k \in DOMAIN dedupLog : dedupLog'[k].id = dedupLog[k].id
        /\ Cardinality({dedupLog[k].id : k \in DOMAIN dedupLog}) <= Capacity)
          => (/\ \A k \in DOMAIN dedupLog' : ~dedupLog'[k].kept
              /\ processed_ids' = processed_ids)]_vars

\* C12 amended: the same for a sequence all of whose fingerprints are in the
\* Ledger when the first call has returned (none was evicted during it).
C12_SecondCallEmptyUnlessEvicted ==
    [][(/\ dedupLog # <<>>
        /\ Len(dedupLog') = Len(dedupLog)
        /\ \A k \in DOMAIN dedupLog : dedupLog'[k].id = dedupLog[k].id
        /\ \A k \in DOMAIN dedupLog : dedupLog[k].id \in Range(processed_ids))
          => (/\ \A k \in DOMAIN dedupLog' : ~dedupLog'[k].kept
              /\ processed_ids' = processed_ids)]_vars

\* A call of two or more items with different fingerprints that kept none of
\* them, each being in the Ledger: what the second of two such calls does.
C12_Witness ==
    /\ Len(dedupLog) >= 2
    /\ \A k \in DOMAIN dedupLog : ~dedupLog[k].kept /\ dedupLog[k].inLedger
    /\ \E j, k \in DOMAIN dedupLog : dedupLog[j].id # dedupLog[k].id

\* C13: the stages of a cycle run in the order collect, dedup, score, signal,
\* broadcast: what is handed to the Scorer was kept by the _deduplicate call
\* of this cycle's collect; signal generation follows the scoring of the same
\* slice; and a broadcast is issued only from the broadcast stage, which is
\* entered from signal generation, and carries that slice's results and signals.
C13_StageOrder ==
    [][/\ (driverPc = "collecting" /\ driverPc' = "scoring") =>
              \A i \in DOMAIN articles' :
                  \E k \in DOMAIN dedupLog' :
                      dedupLog'[k].id = articles'[i].id /\ dedupLog'[k].kept
       /\ driverPc' = "scoring" => driverPc \in {"collecting", "broadcasting", "scoring"}
       /\ driverPc' = "signaling" => driverPc \in {"scoring", "signaling"}
       /\ (driverPc = "scoring" /\ driverPc' = "signaling") =>
              /\ articles' = articles
              /\ results' # <<>>
              /\ Len(results') = Min(BatchSize, Len(articles) - sliceAt)
              /\ \A k \in DOMAIN results' : results'[k].id = articles[sliceAt + k].id
       /\ driverPc' = "broadcasting" => driverPc \in {"signaling", "broadcasting"}
       /\ (driverPc = "signaling" /\ driverPc' = "broadcasting") =>
              /\ results' = results
              /\ {current_signals'[k].symbol : k \in DOMAIN current_signals'}
                     = UNION {results[k].entities : k \in DOMAIN results}
       /\ (bcast' # NoBroadcast /\ bcast'.message # bcast.message) =>
              /\ driverPc = "broadcasting"
              /\ bcast'.message.results = results
              /\ bcast'.message.signals = current_signals
              /\ results # <<>>]_vars

\* A broadcast of a scored slice that holds a backfilled article has been
\* delivered to a subscriber, the Ledger holding a feed entry's fingerprint.
C13_Witness ==
    /\ bcast.done
    /\ bcast.message.results # <<>>
    /\ bcast.delivered # {}
    /\ \E k \in DOMAIN bcast.message.results :
           bcast.message.results[k].id \in DemoIds
    /\ \E id \in RssIds : id \in Range(processed_ids)

\* C14: of the contained failures only the Scorer's aborts the cycle. A
\* collect call in which a feed failed goes on to scoring (or, with nothing
\* new collected, to the ThrottleSecs sleep); a failed send leaves the Driver
\* in its sweep or its slice loop, a cycle's normal end being the ThrottleSecs
\* sleep; a failed scoring call goes to the RecoverySecs sleep with no signal
\* generated and nothing broadcast for the slice.
C14_OnlyScorerAborts ==
    [][/\ (/\ collectLog'.caller = "driver"
           /\ \E k \in DOMAIN collectLog'.outcomes :
                  collectLog'.outcomes[k].kind # "ok") =>
              /\ raisedIn' = None
              /\ \/ driverPc' = "scoring" /\ articles' # <<>>
                 \/ /\ driverPc' = "throttling"
                    /\ sleepSecs' = ThrottleSecs
                    /\ \A k \in DOMAIN dedupLog' : ~dedupLog'[k].kept
       /\ (bcast' # NoBroadcast /\ bcast'.failed # bcast.failed) =>
              /\ raisedIn' = None
              /\ driverPc' \in {"broadcasting", "scoring", "throttling"}
              /\ IterHasNext(active_connections, bIdx) => Sweeping'
       /\ driverPc' = "throttling" => (sleepSecs' = ThrottleSecs /\ raisedIn' = None)
       /\ (driverPc = "scoring" /\ driverPc' \notin {"scoring", "signaling"}) =>
              /\ driverPc' = "recovering"
              /\ raisedIn' = "scoring"
              /\ sleepSecs' = RecoverySecs
              /\ bcast' = NoBroadcast
              /\ UNCHANGED <<sentiment_history, current_signals>>
       /\ raisedIn = "scoring" =>
              /\ driverPc' \in {"recovering", "collecting"}
              /\ bcast' = NoBroadcast
              /\ UNCHANGED <<sentiment_history, current_signals>>]_vars

\* A cycle in which a feed failed and a send failed has ended in the
\* ThrottleSecs sleep.
C14_Witness ==
    /\ driverPc = "throttling"
    /\ sleepSecs = ThrottleSecs
    /\ bcast.done
    /\ bcast.failed # {}
    /\ raisedIn = None

\* C15: whatever feeds fail, the collect call does not raise, and the list
\* _fetch_from_rss returns holds each article of each feed that answered 200
\* as often as that feed produced it and nothing else; the Driver's call
\* (no symbol filter) hands all of it to _deduplicate.
C15_PartialResults ==
    collectLog.caller = "driver" =>
        /\ ~collectLog.raised
        /\ driverPc # "recovering"
        /\ \A x \in RssItems :
               Cardinality({i \in DOMAIN collectLog.rss : collectLog.rss[i] = x})
                   = SumSeq([k \in DOMAIN collectLog.outcomes |->
                               IF collectLog.outcomes[k].kind = "ok"
                               THEN Cardinality({i \in DOMAIN collectLog.outcomes[k].entries :
                                                    collectLog.outcomes[k].entries[i] = x})
                               ELSE 0])
        /\ Len(dedupLog) >= Len(collectLog.rss)
        /\ \A i \in DOMAIN collectLog.rss : dedupLog[i].id = collectLog.rss[i].id

\* A call in which one feed answered 200 with entries and another failed with
\* a body that holds entries: the list is the first feed's entries.
C15_Witness ==
    /\ collectLog.caller = "driver"
    /\ \E j, k \in DOMAIN collectLog.outcomes :
           /\ collectLog.outcomes[j].kind = "ok"
           /\ collectLog.outcomes[j].entries # <<>>
           /\ collectLog.outcomes[k].kind = "status"
           /\ collectLog.outcomes[k].entries # <<>>
           /\ collectLog.rss = collectLog.outcomes[j].entries

\* C16: a step that serves get_current_signals, predict or get_daily_count
\* leaves the Ledger, every window (and the set of symbols that have one), the
\* signal cache and the daily counter as they were.
C16_QueriesReadOnly ==
    [][response'.op \in {"signals", "predict", "stats"} =>
          /\ processed_ids' = processed_ids
          /\ DOMAIN sentiment_history' = DOMAIN sentiment_history
          /\ sentiment_history' = sentiment_history
          /\ current_signals' = current_signals
          /\ daily_count' = daily_count]_vars

\* predict has answered for a symbol that has no window, and still has none,
\* while the Ledger and the daily counter are not empty.
C16_Witness ==
    /\ response.op = "predict"
    /\ response.body.symbol \notin DOMAIN sentiment_history
    /\ processed_ids # <<>>
    /\ daily_count > 0

\* The observations a batch adds to an entity's window, in arrival order.
RECURSIVE C17_Arrivals(_, _)
C17_Arrivals(rs, entity) ==
    IF rs = <<>> THEN <<>>
    ELSE (IF entity \in Head(rs).entities THEN <<[scores |-> Head(rs).scores]>>
          ELSE <<>>) \o C17_Arrivals(Tail(rs), entity)

\* C17: no window ever holds more than HistoryMaxLen observations, and a step
\* that changes the windows leaves each as its old content followed by the
\* batch's observations for the entity, in arrival order, less as many of the
\* oldest as exceed HistoryMaxLen.
C17_WindowBoundedFifo ==
    [][/\ \A e \in DOMAIN sentiment_history' :
              Len(sentiment_history'[e]) <= HistoryMaxLen
       /\ sentiment_history' # sentiment_history =>
              /\ DOMAIN sentiment_history' =
                     DOMAIN sentiment_history
                         \cup UNION {results[k].entities : k \in DOMAIN results}
              /\ \A e \in DOMAIN sentiment_history' :
                     LET old == IF e \in DOMAIN sentiment_history
                                THEN sentiment_history[e] ELSE <<>>
                         all == old \o C17_Arrivals(results, e)
                     IN  sentiment_history'[e] =
                             SubSeq(all,
                                    IF Len(all) > HistoryMaxLen
                                    THEN Len(all) - HistoryMaxLen + 1 ELSE 1,
                                    Len(all))]_vars

\* The signal stage is about to append to a window that is full from earlier
\* appends and whose observations differ: the oldest will be evicted.
C17_Witness ==
    /\ driverPc = "signaling"
    /\ current_signals # <<>>
    /\ \E e \in DOMAIN sentiment_history :
           /\ Len(sentiment_history[e]) = HistoryMaxLen
           /\ sentiment_history[e][1] # sentiment_history[e][HistoryMaxLen]
           /\ \E k \in DOMAIN results : e \in results[k].entities


\* The window of the entity a signal is about.
C18_Window(sig) ==
    IF sig.symbol \in DOMAIN sentiment_history
    THEN sentiment_history[sig.symbol] ELSE <<>>

\* C18: a signal computed for an entity whose window holds fewer than 10
\* observations is HOLD with strength 0.5 and momentum 0, whatever the batch's
\* net sentiment.
C18_ShortWindowHolds ==
    driverPc = "broadcasting" =>
        \A k \in 1 .. Len(current_signals) :
            LET sig == current_signals[k]
            IN  Len(C18_Window(sig)) < 10 =>
                    /\ sig.momentum = 0
                    /\ sig.signal = "HOLD"
                    /\ sig.strength.num * 2 = sig.strength.den

\* The first batch for an entity, every result with positive 0.8 and negative
\* 0.1: net sentiment 0.7, and the signal is HOLD.
C18_Witness ==
    /\ driverPc = "broadcasting"
    /\ \E k \in 1 .. Len(current_signals) :
          LET sig == current_signals[k]
          IN  /\ Len(C18_Window(sig)) = sig.volume
              /\ sig.volume >= 2
              /\ sig.sentiment_score.num * 10 = 7 * sig.sentiment_score.den
              /\ sig.signal = "HOLD"


\* The net sentiment of the batch for one symbol, from the scored results:
\* mean(positive) - mean(negative), as the fraction num / den.
C19_BatchNet(symbol) ==
    LET mine == SelectSeq(results, LAMBDA r : symbol \in r.entities)
    IN  [num |-> SumSeq([k \in 1 .. Len(mine) |->
                            mine[k].scores.positive - mine[k].scores.negative]),
         den |-> 10 * Len(mine)]

\* C19: the kind is BUY exactly when the batch's net sentiment is > 0.3 and
\* the momentum is > 0, SELL exactly when the net sentiment is < -0.3 and the
\* momentum is < 0, and HOLD with strength 0.5 in every other case: a net
\* sentiment of exactly +0.3 or -0.3, or a momentum of 0, gives HOLD.
C19_StrictThresholds ==
    driverPc = "broadcasting" =>
        \A k \in 1 .. Len(current_signals) :
            LET sig == current_signals[k]
                net == C19_BatchNet(sig.symbol)
                buy == 10 * net.num > 3 * net.den /\ sig.momentum > 0
                sell == 10 * net.num < 0 - 3 * net.den /\ sig.momentum < 0
            IN  /\ sig.signal \in {"BUY", "SELL", "HOLD"}
                /\ sig.signal = "BUY" <=> buy
                /\ sig.signal = "SELL" <=> sell
                /\ (~buy /\ ~sell) =>
                       sig.signal = "HOLD" /\ sig.strength.num * 2 = sig.strength.den

\* A batch whose net sentiment is exactly 0.3 on a window with positive
\* momentum: the signal is HOLD.
C19_Witness ==
    /\ driverPc = "broadcasting"
    /\ \E k \in 1 .. Len(current_signals) :
          LET sig == current_signals[k]
              net == C19_BatchNet(sig.symbol)
          IN  /\ 10 * net.num = 3 * net.den
              /\ sig.momentum > 0
              /\ sig.signal = "HOLD"


\* The net sentiments of a window, oldest first.
C20_Nets(w) == [k \in 1 .. Len(w) |-> w[k].scores.positive - w[k].scores.negative]

\* C20: on a window of increasing net sentiments the computed momentum is
\* > 0, on a decreasing window it is < 0, on a constant window it is 0.
\* (Increasing and decreasing are strict and need two observations, so that no
\* window is at once constant and increasing.)
C20_MomentumSign ==
    driverPc = "broadcasting" =>
        \A k \in 1 .. Len(current_signals) :
            LET sig == current_signals[k]
                w == C20_Nets(C18_Window(sig))
                n == Len(w)
            IN  /\ (n >= 2 /\ \A i \in 1 .. n - 1 : w[i] < w[i + 1]) => sig.momentum > 0
                /\ (n >= 2 /\ \A i \in 1 .. n - 1 : w[i] > w[i + 1]) => sig.momentum < 0
                /\ (\A i \in 1 .. n - 1 : w[i] = w[i + 1]) => sig.momentum = 0

\* C20 (amended): on a window of at least 10 observations, increasing net
\* sentiments give a momentum > 0, decreasing ones a momentum < 0, and a
\* constant window gives 0; on a shorter window the momentum is 0.
C20_MomentumSignFromTen ==
    driverPc = "broadcasting" =>
        \A k \in 1 .. Len(current_signals) :
            LET sig == current_signals[k]
                w == C20_Nets(C18_Window(sig))
                n == Len(w)
            IN  /\ n < 10 => sig.momentum = 0
                /\ n >= 10 =>
                      /\ (\A i \in 1 .. n - 1 : w[i] < w[i + 1]) => sig.momentum > 0
                      /\ (\A i \in 1 .. n - 1 : w[i] > w[i + 1]) => sig.momentum < 0
                      /\ (\A i \in 1 .. n - 1 : w[i] = w[i + 1]) => sig.momentum = 0

\* A decreasing window of at least 10 observations, all nets below 0, whose
\* momentum came out negative.
C20_Witness ==
    /\ driverPc = "broadcasting"
    /\ \E k \in 1 .. Len(current_signals) :
          LET sig == current_signals[k]
              w == C20_Nets(C18_Window(sig))
              n == Len(w)
          IN  /\ n >= 10
              /\ w[1] < 0
              /\ \A i \in 1 .. n - 1 : w[i] > w[i + 1]
              /\ sig.momentum < 0

\* The window predict reads for the symbol of the response just served.
C21_Window ==
    IF response.body.symbol \in DOMAIN sentiment_history
    THEN sentiment_history[response.body.symbol] ELSE <<>>

\* C21: predict for a symbol with no observations (never seen, or an empty
\* window) answers normally with volatility 0.5 and confidence 0.3.
C21_NoDataFallback ==
    (response.op = "predict" /\ C21_Window = <<>>) =>
        /\ response.status = 200
        /\ response.body.predicted_volatility.num * 2 =
               response.body.predicted_volatility.den
        /\ response.body.confidence = 30

\* predict was asked about a symbol that has no window while another has one.
C21_Witness ==
    /\ response.op = "predict"
    /\ response.body.symbol \notin DOMAIN sentiment_history
    /\ sentiment_history # <<>>
    /\ response.status = 200

\* C22: for every entity with a non-empty window, predict returns the
\* confidence min(0.95, volume / 50), the volume being the number of
\* observations of the window, counted over at most the 50 most recent; the
\* signal cache and the Driver's position play no part.
C22_ConfidenceFromVolume ==
    (response.op = "predict" /\ C21_Window # <<>>) =>
        LET volume == Min(Len(C21_Window), 50)
        IN  response.body.confidence = Min(95, 2 * volume)

\* C22 (amended): for every entity whose window holds at least 5
\* observations, predict returns the confidence min(0.95, volume / 50) with
\* the volume counted over at most the 50 most recent observations; with 1 to
\* 4 observations it returns the fallback confidence 0.3 and the volume 0.
C22_ConfidenceFromVolumeFromFive ==
    (response.op = "predict" /\ C21_Window # <<>>) =>
        LET volume == Min(Len(C21_Window), 50)
        IN  /\ Len(C21_Window) >= 5 =>
                  /\ response.body.confidence = Min(95, 2 * volume)
                  /\ response.body.volume = volume
            /\ Len(C21_Window) < 5 =>
                  /\ response.body.confidence = 30
                  /\ response.body.volume = 0

\* predict on a window of more than 50 observations, with signals in the
\* cache: the confidence is the cap, 0.95.
C22_Witness ==
    /\ response.op = "predict"
    /\ Len(C21_Window) > 50
    /\ current_signals # <<>>
    /\ response.body.volume = 50
    /\ response.body.confidence = 95

C24_BackfillProgress ==
    collectLog.caller # "none" =>
        /\ ~collectLog.raised
        /\ Len(collectLog.rss) < collectLog.limit =>
               Len(collectLog.simulated) = collectLog.limit - Len(collectLog.rss)
        /\ Len(collectLog.returned) <= collectLog.limit
        /\ (/\ \A k \in DOMAIN collectLog.outcomes :
                   collectLog.outcomes[k].kind # "ok"
            /\ collectLog.symbol = None) =>
               collectLog.returned # <<>>

\* Every feed failed while the Ledger was full, and the call returned limit
\* backfill items.
C24_Witness ==
    /\ collectLog.caller # "none"
    /\ \A k \in DOMAIN collectLog.outcomes : collectLog.outcomes[k].kind # "ok"
    /\ \E k \in DOMAIN collectLog.outcomes : collectLog.outcomes[k].kind = "raises"
    /\ collectLog.symbol = None
    /\ Len(processed_ids) = Capacity
    /\ collectLog.returned = collectLog.simulated
    /\ Len(collectLog.returned) = collectLog.limit

\* C25: after a generate_signals call the cache holds exactly one signal for
\* each distinct entity of the batch and nothing else, whatever it held
\* before; the signals query returns the cache, restricted to the signals of
\* the requested symbol (letter case aside) when one is given.
C25_CacheReplacedAndServed ==
    [][/\ (driverPc = "signaling" /\ driverPc' = "broadcasting") =>
            LET ents == UNION {results[k].entities : k \in DOMAIN results}
            IN  /\ {current_signals'[k].symbol : k \in DOMAIN current_signals'} = ents
                /\ Len(current_signals') = Cardinality(ents)
       /\ response'.op = "signals" =>
            response'.body =
                IF response'.symbol = None THEN current_signals
                ELSE SelectSeq(current_signals,
                               LAMBDA s : Upper(s.symbol) = Upper(response'.symbol))
      ]_vars

\* The observations a batch brings to an entity's window, in batch order: one
\* per scored item that mentions the entity.
C26_Arrivals(entity) ==
    LET mine == SelectSeq(results, LAMBDA r : entity \in r.entities)
    IN  [k \in 1 .. Len(mine) |-> [scores |-> mine[k].scores]]

\* The window of an entity, empty if it has none.
C26_WindowOf(history, entity) ==
    IF entity \in DOMAIN history THEN history[entity] ELSE <<>>

RECURSIVE C27_NetSum(_, _, _)
C27_NetSum(w, a, b) ==
    IF a > b THEN 0
    ELSE (w[b].scores.positive - w[b].scores.negative) + C27_NetSum(w, a, b - 1)

\* C27: with n >= 10 observations in the window, the momentum is the mean net
\* sentiment of the newer half minus that of the older half of the most recent
\* m = min(n, 20) observations, the older half being the first floor(m / 2)
\* of them, clamped to [-1, 1]; older observations have no influence.
C27_MomentumIsHalfDifference ==
    (response.op = "predict" /\ Len(C21_Window) >= 10) =>
        LET w == C21_Window
            n == Len(w)
            m == Min(n, 20)
            h == m \div 2
            older == C27_NetSum(w, n - m + 1, n - m + h)
            newer == C27_NetSum(w, n - m + h + 1, n)
            \* newer / (10 (m - h)) - older / (10 h) = num / den
            num == newer * h - older * (m - h)
            den == 10 * h * (m - h)
            got == response.body.momentum
        IN  IF num > den THEN got.num = got.den
            ELSE IF num < 0 - den THEN got.num = 0 - got.den
            ELSE got.num * den = num * got.den

\* predict on a window of more than 20 observations, the oldest unlike the
\* newest, whose momentum is neither 0 nor clamped.
C27_Witness ==
    /\ response.op = "predict"
    /\ Len(C21_Window) > 20
    /\ C21_Window[1] # C21_Window[Len(C21_Window)]
    /\ response.body.momentum.num # 0
    /\ response.body.momentum.den > 1

\* C28: the list a collect call returned is processed in consecutive slices
\* of at most BatchSize items, in order: the first slice starts at the head of
\* the list, the Scorer gets the items of the current slice in list order,
\* each slice's signals are those of its own results, one broadcast carries
\* the slice's results and signals, and the next slice starts where this one
\* ended; the cycle ends when the list is used up.
C28_SlicesInOrder ==
    [][/\ (driverPc = "collecting" /\ collectLog'.caller = "driver") =>
            /\ driverPc' = IF collectLog'.returned = <<>> THEN "throttling" ELSE "scoring"
            /\ driverPc' = "scoring" =>
                   articles' = collectLog'.returned /\ sliceAt' = 0
       /\ (driverPc = "scoring" /\ driverPc' = "signaling") =>
            /\ Len(results') = Min(BatchSize, Len(articles) - sliceAt)
            /\ \A k \in DOMAIN results' : results'[k].id = articles[sliceAt + k].id
       /\ (driverPc = "signaling" /\ driverPc' = "broadcasting") =>
            /\ results' = results
            /\ {current_signals'[k].symbol : k \in DOMAIN current_signals'}
                   = UNION {results[k].entities : k \in DOMAIN results}
       /\ (driverPc = "broadcasting" /\ driverPc' \in {"scoring", "throttling"}) =>
            /\ bcast'.done
            /\ bcast'.message = [results |-> results, signals |-> current_signals]
            /\ driverPc' = "scoring" =>
                   /\ articles' = articles
                   /\ sliceAt' = sliceAt + BatchSize
                   /\ sliceAt' < Len(articles)
            /\ driverPc' = "throttling" => sliceAt + BatchSize >= Len(articles)
      ]_vars

\* A cycle whose collect call returned a full slice has broadcast it and is in
\* its throttle sleep.
C28_Witness ==
    /\ driverPc = "throttling"
    /\ bcast.done
    /\ Len(bcast.message.results) = BatchSize
    /\ bcast.message.signals # <<>>

\* C29: two collected entries that have no URL but differ in their content
\* get different fingerprints, and the Deduplicator forwards both (unless the
\* Ledger already holds the fingerprint of one).
C29_LinklessDistinct ==
    collectLog.caller = "driver" =>
        \A i, j \in DOMAIN collectLog.rss :
            (/\ i < j
             /\ collectLog.rss[i] \in LinklessItems
             /\ collectLog.rss[j] \in LinklessItems
             /\ collectLog.rss[i] # collectLog.rss[j]) =>
                /\ collectLog.rss[i].id # collectLog.rss[j].id
                /\ dedupLog[i].kept = dedupLog[j].kept

\* C30: every fingerprint that a collect call inserts into the Ledger belongs
\* to an item of the list the call returns.
C30_RecordedIsReturned ==
    (collectLog.caller # "none" /\ ~collectLog.raised) =>
        \A k \in DOMAIN dedupLog :
            dedupLog[k].kept =>
                \E m \in DOMAIN collectLog.returned :
                    collectLog.returned[m].id = dedupLog[k].id

\* C31: processing is at-most-once. A cycle that aborts after its collect call
\* leaves the Ledger as it is; the Deduplicator forwards to the Driver no item
\* whose fingerprint is in the Ledger; and no result that reaches signal
\* generation comes from an item whose fingerprint has added observations to
\* the windows before and has been in the Ledger ever since.
C31_AtMostOnce ==
    [][/\ (driverPc \in {"scoring", "signaling", "broadcasting"} /\ driverPc' = "recovering")
              => processed_ids' = processed_ids
       /\ collectLog'.caller = "driver" =>
              \A k \in DOMAIN dedupLog' :
                  dedupLog'[k].kept =>
                      /\ dedupLog'[k].id \notin Range(processed_ids)
                      /\ dedupLog'[k].id \notin observed
       /\ driverPc = "signaling" => Observing(results) \cap observed = {}
       /\ observed' \subseteq Range(processed_ids')
      ]_vars

\* The Driver's collect call has dropped a feed entry whose earlier cycle
\* aborted before it added an observation (its fingerprint is in the Ledger),
\* and has forwarded another one.
C31_Witness ==
    /\ collectLog.caller = "driver"
    /\ \E k \in DOMAIN dedupLog :
           /\ ~dedupLog[k].kept
           /\ dedupLog[k].inLedger
           /\ dedupLog[k].id \in RssIds \ observed
    /\ \E k \in DOMAIN dedupLog : dedupLog[k].kept

\* C32: the daily counter is the number of items that collect calls have
\* returned to their callers since the last daily reset: a collect call that
\* returns adds the length of the list it returns, after restarting the
\* counter from 0 if a day has passed; a collect call that raises leaves the
\* counter or restarts it; and no other step changes the counter.
C32_CounterIsReturned ==
    [][/\ (collectLog'.caller # "none" /\ ~collectLog'.raised) =>
              daily_count' \in {daily_count + Len(collectLog'.returned),
                                Len(collectLog'.returned)}
       /\ (collectLog'.caller # "none" /\ collectLog'.raised) =>
              daily_count' \in {daily_count, 0}
       /\ collectLog'.caller = "none" =>
              \/ daily_count' = daily_count
              \/ driverPc = "collecting" /\ driverPc' = "recovering" /\ daily_count' = 0
      ]_vars

=============================================================================
